---- MODULE Spec2Model ----
(***************************************************************************)
(* Token + signaling server (src/index.js, second revision, lines 131-328):*)
(* the presence registry `clients`, the socket.io event handlers, the      *)
(* /sendPush endpoint and the /rtcToken endpoint.                          *)
(***************************************************************************)
EXTENDS Integers, Sequences, FiniteSets, TLC

\* ------------------------------------------------------------------ bounds
NumSockets == 2
MaxReq == 1
MaxUidLen == 3
MaxEvents == 3

\* ------------------------------------------------------------- value sets
SocketNames == <<"s1", "s2", "s3", "s4">>
Sockets == {SocketNames[i] : i \in 1..NumSockets}
Users == {"doctor", "patient"}
\* `clients` is a plain object: the key "__proto__" names Object.prototype, which
\* every record inherits from
Proto == "__proto__"
\* a key naming a member of Object.prototype (constructor, toString, valueOf, ...):
\* clients[key] is a built-in function from the start, an object that inherits
\* from Object.prototype like every record
Builtin == "constructor"
\* keys naming the two fields the server stores: once a value is stored on
\* Object.prototype under that name, clients[key] reads that string
FieldKeys == {"socketId", "pushToken"}
UserIds == Users \cup {Proto, Builtin} \cup FieldKeys
Tokens == {"tokA", "tokB"}
Channels == {"room1"}
CallerUids == {7}

\* JavaScript's undefined, and the values `!x` treats as absent
Undef == "undefined"
Falsy(x) == x \in {Undef, ""}

\* payloads a client sends with call / accept_call / reject_call / end_call
Callers == {"patient"}
Payloads == [to : UserIds, from : Callers, channel : Channels, callerUid : CallerUids]

VARIABLES
    conn,       \* socket id -> "new" | "open" | "closed" (ids are never reused)
    sockUser,   \* socket.data.userId of each socket
    clients,    \* userId -> [present, socketId, pushToken]
    pending,    \* /sendPush calls in flight: the requests waiting for import('node-fetch'),
                \* and how many calls await the collaborator's response and its text()
    emitted,    \* messages the last step delivered to client connections
    submitted,  \* requests the last step submitted to the delivery collaborator
    signed,     \* calls the last step made to RtcTokenBuilder.buildTokenWithUid
    response,   \* HTTP response the last step sent (or NoResponse)
    query,      \* the /rtcToken request waiting to be handled (or NoQuery)
    wire,       \* per connection: events handled from it, messages delivered to it, in order
    last        \* the event or request the last step handled

vars == <<conn, sockUser, clients, pending, emitted, submitted, signed, response, query, wire, last>>

NoRecord == [present |-> FALSE, socketId |-> Undef, pushToken |-> Undef]
\* clients["__proto__"] and clients["constructor"] before anything is stored on
\* them: Object.prototype and the function Object, both truthy
ProtoRecord == [present |-> TRUE, socketId |-> Undef, pushToken |-> Undef]
NoResponse == [status |-> 0, body |-> Undef]
NoQuery == [path |-> "none"]
NoWire == [handled |-> [s \in Sockets |-> 0], outbox |-> [s \in Sockets |-> <<>>]]

\* ------------------------------------------------------- registry helpers
\* what clients[uid] reads through Object.prototype when clients has no key uid
\* of its own: the string stored there under that name, or undefined
InheritedValue(cl, uid) ==
    CASE uid = "socketId" -> cl[Proto].socketId
      [] uid = "pushToken" -> cl[Proto].pushToken
      [] OTHER -> Undef

\* clients[uid] is an inherited string, not a record: truthy, reads of its
\* properties go on to Object.prototype, and a property written to it is lost
IsPrimitive(cl, uid) == ~cl[uid].present /\ InheritedValue(cl, uid) # Undef

\* clients[userId]?.socketId: the record's own socketId, or else the one stored on
\* Object.prototype; undefined when clients[userId] is
SocketOf(cl, uid) ==
    IF cl[uid].present /\ cl[uid].socketId # Undef THEN cl[uid].socketId
    ELSE IF cl[uid].present \/ IsPrimitive(cl, uid) THEN cl[Proto].socketId
    ELSE Undef

\* clients[userId]?.pushToken: own, or else inherited from Object.prototype
PushTokenOf(cl, uid) ==
    IF cl[uid].present /\ cl[uid].pushToken # Undef THEN cl[uid].pushToken
    ELSE IF cl[uid].present \/ IsPrimitive(cl, uid) THEN cl[Proto].pushToken
    ELSE Undef

\* register that assigns a fresh record: clients[userId] = { socketId: socket.id }
UpsertSocketReplacing(cl, uid, sid) ==
    [cl EXCEPT ![uid] = [present |-> TRUE, socketId |-> sid, pushToken |-> Undef]]

\* if (!clients[userId]) clients[userId] = {}; clients[userId].socketId = socket.id
\* (an inherited string passes the test and the assignment to it stores nothing)
UpsertSocket(cl, uid, sid) ==
    IF IsPrimitive(cl, uid) THEN cl
    ELSE [cl EXCEPT ![uid] = [@ EXCEPT !.present = TRUE, !.socketId = sid]]

\* if (!clients[userId]) clients[userId] = {}; clients[userId].pushToken = pushToken
UpsertPush(cl, uid, tok) ==
    IF IsPrimitive(cl, uid) THEN cl
    ELSE [cl EXCEPT ![uid] = [@ EXCEPT !.present = TRUE, !.pushToken = tok]]

\* disconnect that sweeps the socketId out of every record
ClearAllSockets(cl, uid) ==
    [u \in UserIds |-> IF cl[u].present THEN [cl[u] EXCEPT !.socketId = Undef] ELSE cl[u]]

\* if (clients[uid]) delete clients[uid].socketId (deleting from an inherited
\* string removes nothing)
ClearSocket(cl, uid) ==
    IF cl[uid].present THEN [cl EXCEPT ![uid] = [@ EXCEPT !.socketId = Undef]]
    ELSE cl

\* ------------------------------------------------------------- emitting
\* io.to(room).emit(ev, payload): every socket joins the room named by its own
\* id while it is connected, so the message reaches that one connection or nobody
Emit(cn, room, ev, payload) ==
    IF room \in Sockets /\ cn[room] = "open"
    THEN <<[dest |-> room, ev |-> ev, payload |-> payload]>>
    ELSE <<>>

\* call that always answers the caller as well
CallOutAlsoReplies(cl, cn, sid, payload) ==
    Emit(cn, SocketOf(cl, payload.to), "incoming_call", payload)
        \o Emit(cn, sid, "callee_unavailable", [to |-> payload.to])

\* the 'call' handler's output
CallOut(cl, cn, sid, payload) ==
    IF ~Falsy(SocketOf(cl, payload.to))
    THEN Emit(cn, SocketOf(cl, payload.to), "incoming_call", payload)
    ELSE Emit(cn, sid, "callee_unavailable", [to |-> payload.to])

\* name of the outbound event for accept_call / reject_call / end_call
ForwardName(op) ==
    CASE op = "accept_call" -> "call_accepted"
      [] op = "reject_call" -> "call_rejected"
      [] op = "end_call" -> "end_call"

\* forward that tells the sender when the recipient does not resolve
ForwardOutNotifying(cl, cn, sid, op, payload) ==
    IF ~Falsy(SocketOf(cl, payload.to))
    THEN Emit(cn, SocketOf(cl, payload.to), ForwardName(op), payload)
    ELSE Emit(cn, sid, "callee_unavailable", [to |-> payload.to])

\* forward that rebuilds the payload from the routing fields and loses the rest
ForwardOutRebuilding(cl, cn, sid, op, payload) ==
    IF ~Falsy(SocketOf(cl, payload.to))
    THEN Emit(cn, SocketOf(cl, payload.to), ForwardName(op),
              [to |-> payload.to, from |-> payload.from, channel |-> payload.channel])
    ELSE <<>>

\* the accept_call / reject_call / end_call handlers' output
ForwardOut(cl, cn, sid, op, payload) ==
    IF ~Falsy(SocketOf(cl, payload.to))
    THEN Emit(cn, SocketOf(cl, payload.to), ForwardName(op), payload)
    ELSE <<>>

\* ------------------------------------------------------------------ Init
Init ==
    /\ conn = [s \in Sockets |-> "new"]
    /\ sockUser = [s \in Sockets |-> Undef]
    /\ clients = [u \in UserIds |-> IF u \in {Proto, Builtin} THEN ProtoRecord ELSE NoRecord]
    /\ pending = [import |-> <<>>, fetch |-> 0, text |-> 0]
    /\ emitted = <<>>
    /\ submitted = <<>>
    /\ signed = <<>>
    /\ response = NoResponse
    /\ query = NoQuery
    /\ wire = NoWire
    /\ last = [op |-> "init"]

Quiet ==
    /\ emitted' = <<>>
    /\ submitted' = <<>>
    /\ signed' = <<>>
    /\ response' = NoResponse

\* ------------------------------------------------------- socket handlers
\* io.on('connection'): a fresh id per connection; ids are opaque, so the i-th
\* connection made gets the i-th name
Connect(s) ==
    /\ conn[s] = "new"
    /\ \A i, j \in 1..NumSockets : (SocketNames[j] = s /\ i < j) => conn[SocketNames[i]] # "new"
    /\ conn' = [conn EXCEPT ![s] = "open"]
    /\ last' = [op |-> "connect", sock |-> s]
    /\ Quiet
    /\ UNCHANGED <<sockUser, clients, pending, query, wire>>

\* socket.on('register')
Register(s, uid) ==
    /\ conn[s] = "open"
    /\ IF Falsy(uid)
       THEN UNCHANGED <<clients, sockUser>>
       ELSE /\ clients' = UpsertSocket(clients, uid, s)
            /\ sockUser' = [sockUser EXCEPT ![s] = uid]
    /\ last' = [op |-> "register", sock |-> s, userId |-> uid]
    /\ Quiet
    /\ UNCHANGED <<conn, pending, query, wire>>

\* ({ userId, pushToken }) on the payload of register_push, itself a plain object:
\* a payload without a pushToken field reads the one stored on Object.prototype
PayloadPushToken(cl, tok) == IF tok = Undef THEN cl[Proto].pushToken ELSE tok

\* socket.on('register_push'); tok is the payload's own pushToken field
RegisterPush(uid, tok) ==
    /\ \E s \in Sockets : conn[s] = "open"
    /\ IF Falsy(uid) \/ Falsy(PayloadPushToken(clients, tok))
       THEN UNCHANGED clients
       ELSE clients' = UpsertPush(clients, uid, PayloadPushToken(clients, tok))
    /\ last' = [op |-> "register_push", userId |-> uid, pushToken |-> tok]
    /\ Quiet
    /\ UNCHANGED <<conn, sockUser, pending, query, wire>>

\* socket.on('call')
Call(s, payload) ==
    /\ conn[s] = "open"
    /\ emitted' = CallOut(clients, conn, s, payload)
    /\ last' = [op |-> "call", sock |-> s, payload |-> payload]
    /\ submitted' = <<>>
    /\ signed' = <<>>
    /\ response' = NoResponse
    /\ UNCHANGED <<conn, sockUser, clients, pending, query, wire>>

\* socket.on('accept_call' | 'reject_call' | 'end_call')
Forward(s, op, payload) ==
    /\ conn[s] = "open"
    /\ emitted' = ForwardOut(clients, conn, s, op, payload)
    /\ last' = [op |-> op, sock |-> s, payload |-> payload]
    /\ submitted' = <<>>
    /\ signed' = <<>>
    /\ response' = NoResponse
    /\ UNCHANGED <<conn, sockUser, clients, pending, query, wire>>

\* socket.on('disconnect')
Disconnect(s) ==
    /\ conn[s] = "open"
    /\ conn' = [conn EXCEPT ![s] = "closed"]
    /\ IF ~Falsy(sockUser[s])
       THEN clients' = ClearSocket(clients, sockUser[s])
       ELSE UNCHANGED clients
    /\ last' = [op |-> "disconnect", sock |-> s, userId |-> sockUser[s]]
    /\ Quiet
    /\ UNCHANGED <<sockUser, pending, query, wire>>

\* the events a client emits with a payload
PayloadEvents == {"register", "register_push", "call", "accept_call", "reject_call", "end_call"}

\* an event emitted with no payload at all: the handler's parameter is undefined,
\* so ({ userId }), ({ userId, pushToken }), const { to } = payload and payload.to
\* throw TypeError before the registry is read or written
NoPayload(s, ev) ==
    /\ conn[s] = "open"
    /\ last' = [op |-> "TypeError", sock |-> s, event |-> ev]
    /\ Quiet
    /\ UNCHANGED <<conn, sockUser, clients, pending, query, wire>>

\* a guard that also refuses while the recipient has a socketId on record
HasPushTokenAndOffline(cl, to) == ~Falsy(PushTokenOf(cl, to)) /\ Falsy(SocketOf(cl, to))

\* if (!toClient?.pushToken) -> 400
HasPushToken(cl, to) == ~Falsy(PushTokenOf(cl, to))

\* request body addressed to the user id instead of the registered push token
PushRequestToUserId(cl, to, from, channel) ==
    [to |-> to,
     title |-> "Incoming Call",
     body |-> <<from, " is calling you">>,
     data |-> [type |-> "incoming_call", from |-> from, channel |-> channel]]

\* the JSON body posted to the delivery collaborator
PushRequest(cl, to, from, channel) ==
    [to |-> PushTokenOf(cl, to),
     title |-> "Incoming Call",
     body |-> <<from, " is calling you">>,
     data |-> [type |-> "incoming_call", from |-> from, channel |-> channel]]

NoPushToken == [status |-> 400, body |-> [error |-> "No push token for recipient"]]
PushOk == [status |-> 200, body |-> [ok |-> TRUE]]
PushFailed == [status |-> 500, body |-> [error |-> "push_failed"]]

\* what the collaborator can do with a submitted request
FetchOutcomes == {"ok", "notok", "error"}
\* what reading the body of a non-success response can do
TextOutcomes == {"read", "error"}

\* what import('node-fetch') can do: load the client or fail
ImportOutcomes == {"resolved", "rejected"}

\* /sendPush calls that have been accepted and not yet answered
InFlight == Len(pending.import) + pending.fetch + pending.text

\* app.post('/sendPush'), up to the await of fetch: the request body is built
\* from the registry as it is now, and fetch(...) is the wrapper that first
\* imports node-fetch, so nothing is submitted in this step
SendPush(to, from, channel) ==
    /\ IF ~HasPushToken(clients, to)
       THEN /\ response' = NoPushToken
            /\ UNCHANGED pending
       ELSE /\ InFlight < MaxReq
            /\ pending' = [pending EXCEPT !.import =
                              Append(@, [to |-> to,
                                         request |-> PushRequest(clients, to, from, channel)])]
            /\ response' = NoResponse
    /\ last' = [op |-> "sendPush", to |-> to, from |-> from, channel |-> channel]
    /\ emitted' = <<>>
    /\ submitted' = <<>>
    /\ signed' = <<>>
    /\ UNCHANGED <<conn, sockUser, clients, query, wire>>

\* the fetch wrapper, resumed when import('node-fetch') settles: the oldest
\* waiting request is handed to node-fetch as it was built, or, when the import
\* fails, the handler's catch answers 500 and nothing is submitted
ImportResult(outcome) ==
    /\ pending.import # <<>>
    /\ submitted' = IF outcome = "resolved" THEN <<Head(pending.import).request>> ELSE <<>>
    /\ response' = IF outcome = "resolved" THEN NoResponse ELSE PushFailed
    /\ pending' = [import |-> Tail(pending.import),
                   fetch |-> IF outcome = "resolved" THEN pending.fetch + 1 ELSE pending.fetch,
                   text |-> pending.text]
    /\ last' = [op |-> "import_result", outcome |-> outcome, to |-> Head(pending.import).to]
    /\ emitted' = <<>>
    /\ signed' = <<>>
    /\ UNCHANGED <<conn, sockUser, clients, query, wire>>

\* the response sent once fetch has settled; "notok" waits for the body instead
FetchReply(outcome) ==
    CASE outcome = "ok" -> PushOk
      [] outcome = "notok" -> NoResponse
      [] outcome = "error" -> PushFailed

\* app.post('/sendPush'), resumed when fetch settles
FetchResult(outcome) ==
    /\ pending.fetch > 0
    /\ response' = FetchReply(outcome)
    /\ pending' = [import |-> pending.import,
                   fetch |-> pending.fetch - 1,
                   text |-> IF outcome = "notok" THEN pending.text + 1 ELSE pending.text]
    /\ last' = [op |-> "fetch_result", outcome |-> outcome]
    /\ emitted' = <<>>
    /\ submitted' = <<>>
    /\ signed' = <<>>
    /\ UNCHANGED <<conn, sockUser, clients, query, wire>>

\* the response sent once pushResponse.text() has settled
TextReply(outcome) == IF outcome = "read" THEN PushOk ELSE PushFailed

\* app.post('/sendPush'), resumed when pushResponse.text() settles
TextResult(outcome) ==
    /\ pending.text > 0
    /\ response' = TextReply(outcome)
    /\ pending' = [pending EXCEPT !.text = @ - 1]
    /\ last' = [op |-> "text_result", outcome |-> outcome]
    /\ emitted' = <<>>
    /\ submitted' = <<>>
    /\ signed' = <<>>
    /\ UNCHANGED <<conn, sockUser, clients, query, wire>>

\* the pushToken arguments a client can send, absent included
TokenArgs == Tokens \cup {Undef}
ForwardOps == {"accept_call", "reject_call", "end_call"}

\* payloads of the relay, addressed to the userIds that register there and to
\* one that reads what "__proto__" has registered
RelayPayloads == {p \in Payloads : p.to \in Users \cup {Proto, "socketId"}}

\* the signaling relay: connections of ordinary userIds and of "__proto__", and
\* the four call-lifecycle events
Next ==
    \/ \E s \in Sockets : Connect(s)
    \/ \E s \in Sockets, uid \in Users \cup {Proto} : Register(s, uid)
    \/ \E s \in Sockets : Disconnect(s)
    \/ \E s \in Sockets, p \in RelayPayloads : Call(s, p)
    \/ \E s \in Sockets, op \in ForwardOps, p \in RelayPayloads : Forward(s, op, p)
    \/ \E s \in Sockets : NoPayload(s, "call")

Spec == Init /\ [][Next]_vars

\* the userIds registering in the presence registry taken on its own
RegistryIds == Users \cup {Proto, "socketId"}

\* the presence registry on its own: connections and both registration events,
\* with empty and absent arguments
RegistryNext ==
    \/ \E s \in Sockets : Connect(s)
    \/ \E s \in Sockets, uid \in RegistryIds \cup {"", Undef} : Register(s, uid)
    \/ \E s \in Sockets : Disconnect(s)
    \/ \E uid \in RegistryIds \cup {""}, tok \in {"tokA", Undef} : RegisterPush(uid, tok)
    \/ \E s \in Sockets : NoPayload(s, "register_push")

RegistrySpec == Init /\ [][RegistryNext]_vars

\* the userIds registering a pushToken next to the fallback notifier
PushIds == {"doctor", Proto, "pushToken"}

\* the fallback notifier: connections that register, push registrations for any
\* userId and the /sendPush request path
PushNext ==
    \/ \E s \in Sockets : Connect(s)
    \/ \E s \in Sockets : Register(s, "doctor")
    \/ \E uid \in PushIds \cup {""}, tok \in TokenArgs : RegisterPush(uid, tok)
    \/ \E to \in PushIds \cup {Builtin}, from \in Callers, ch \in Channels : SendPush(to, from, ch)
    \/ \E o \in ImportOutcomes : ImportResult(o)
    \/ \E o \in FetchOutcomes : FetchResult(o)
    \/ \E o \in TextOutcomes : TextResult(o)

PushSpec == Init /\ [][PushNext]_vars

\* ------------------------------------------------------------- /rtcToken
TokenExpireDefault == 3600
Clock == {1700000000}
AppId == "60bdf4f5f1b641f583d20d28d7a923d1"
AppCertificate == "85ffadb2cbf34c4b8b7d109b7f5c8072"

\* characters a uid query parameter is made of here, and the digits among them
UidChars == {"0", "1", "5", ".", "a", " ", "-"}
Digits == {"0", "1", "5"}
DigitValue(c) == CASE c = "0" -> 0 [] c = "1" -> 1 [] c = "5" -> 5

\* query parameters: absent (undefined) or a string; a uid string is a sequence of characters
ChannelArgs == {Undef, "", "room1"}
UidStrings == UNION {[1..n -> UidChars] : n \in 0..MaxUidLen}
UidArgs == {[given |-> FALSE, chars |-> <<>>]} \cup {[given |-> TRUE, chars |-> cs] : cs \in UidStrings}

\* !uid
UidMissing(uid) == ~uid.given \/ uid.chars = <<>>

RECURSIVE TrimLeft(_)
TrimLeft(cs) == IF cs # <<>> /\ Head(cs) = " " THEN TrimLeft(Tail(cs)) ELSE cs

RECURSIVE TrimRight(_)
TrimRight(cs) ==
    IF cs # <<>> /\ cs[Len(cs)] = " " THEN TrimRight(SubSeq(cs, 1, Len(cs) - 1)) ELSE cs

RECURSIVE DigitsValue(_)
DigitsValue(cs) ==
    IF cs = <<>> THEN 0
    ELSE 10 * DigitsValue(SubSeq(cs, 1, Len(cs) - 1)) + DigitValue(cs[Len(cs)])

AllDigits(cs) == \A i \in 1..Len(cs) : cs[i] \in Digits

\* a number is neg * mant / 10^scale; trailing zeros of the fraction are dropped
RECURSIVE Normalize(_)
Normalize(v) ==
    IF v.scale > 0 /\ v.mant % 10 = 0
    THEN Normalize([v EXCEPT !.mant = v.mant \div 10, !.scale = v.scale - 1])
    ELSE v

NaN == [nan |-> TRUE, neg |-> FALSE, mant |-> 0, scale |-> 0]

\* an unsigned decimal literal: digits, digits '.' digits?, or '.' digits
UnsignedDecimal(cs, neg) ==
    LET dots == {i \in 1..Len(cs) : cs[i] = "."} IN
    IF cs = <<>> \/ Cardinality(dots) > 1 THEN NaN
    ELSE IF dots = {} THEN
        IF AllDigits(cs)
        THEN [nan |-> FALSE, neg |-> neg, mant |-> DigitsValue(cs), scale |-> 0]
        ELSE NaN
    ELSE
        LET d == CHOOSE i \in dots : TRUE
            ip == SubSeq(cs, 1, d - 1)
            fp == SubSeq(cs, d + 1, Len(cs))
        IN  IF AllDigits(ip) /\ AllDigits(fp) /\ Len(ip) + Len(fp) > 0
            THEN Normalize([nan |-> FALSE, neg |-> neg,
                            mant |-> DigitsValue(ip \o fp), scale |-> Len(fp)])
            ELSE NaN

\* Number(uid) on a string: white space is trimmed, the empty string is 0, an
\* optional sign precedes a decimal literal, and anything else is NaN
ToNumber(cs) ==
    LET s == TrimRight(TrimLeft(cs)) IN
    IF s = <<>> THEN [nan |-> FALSE, neg |-> FALSE, mant |-> 0, scale |-> 0]
    ELSE IF Head(s) = "-" THEN UnsignedDecimal(Tail(s), TRUE)
    ELSE UnsignedDecimal(s, FALSE)

\* Number.isFinite
IsFinite(v) == ~v.nan

\* the value has no fractional part
IsInteger(v) == ~v.nan /\ v.scale = 0

\* the number as res.json writes it: JSON has no negative zero
JsonNumber(v) == IF v.mant = 0 THEN [v EXCEPT !.neg = FALSE] ELSE v

RtcMissing == [status |-> 400, body |-> [error |-> "channelName and uid required"]]
RtcNotNumeric == [status |-> 400, body |-> [error |-> "uid must be numeric"]]
RtcSignFailed == [status |-> 500, body |-> [error |-> "token_generation_failed"]]

\* arguments of RtcTokenBuilder.buildTokenWithUid
SignCall(channelName, uidInt, now) ==
    [appId |-> AppId, appCertificate |-> AppCertificate, channelName |-> channelName,
     uid |-> uidInt, role |-> "PUBLISHER", privilegeExpiredTs |-> now + TokenExpireDefault]

\* [response, signed] of app.get('/rtcToken'); signOk: the signing primitive returns
RtcReply(channelName, uid, now, signOk) ==
    IF Falsy(channelName) \/ UidMissing(uid)
    THEN [response |-> RtcMissing, signed |-> <<>>]
    ELSE LET uidInt == ToNumber(uid.chars) IN
         IF ~IsFinite(uidInt)
         THEN [response |-> RtcNotNumeric, signed |-> <<>>]
         ELSE LET call == SignCall(channelName, uidInt, now) IN
              IF signOk
              THEN [response |-> [status |-> 200,
                                  body |-> [rtcToken |-> <<"token", call>>,
                                            uid |-> JsonNumber(uidInt),
                                            channelName |-> channelName]],
                    signed |-> <<call>>]
              ELSE [response |-> RtcSignFailed, signed |-> <<call>>]

\* app.get('/rtcToken') answering the waiting request
RtcToken(signOk) ==
    /\ query # NoQuery
    /\ response' = RtcReply(query.channelName, query.uid, query.now, signOk).response
    /\ signed' = RtcReply(query.channelName, query.uid, query.now, signOk).signed
    /\ last' = [op |-> "rtcToken", channelName |-> query.channelName, uid |-> query.uid,
                signOk |-> signOk]
    /\ query' = NoQuery
    /\ emitted' = <<>>
    /\ submitted' = <<>>
    /\ UNCHANGED <<conn, sockUser, clients, pending, wire>>

Queries == [path : {"/rtcToken"}, channelName : ChannelArgs, uid : UidArgs, now : Clock]

\* the credential issuer on its own: one request, of any query, against a fresh server
RtcInit ==
    /\ conn = [s \in Sockets |-> "new"]
    /\ sockUser = [s \in Sockets |-> Undef]
    /\ clients = [u \in UserIds |-> IF u \in {Proto, Builtin} THEN ProtoRecord ELSE NoRecord]
    /\ pending = [import |-> <<>>, fetch |-> 0, text |-> 0]
    /\ emitted = <<>>
    /\ submitted = <<>>
    /\ signed = <<>>
    /\ response = NoResponse
    /\ query \in Queries
    /\ wire = NoWire
    /\ last = [op |-> "init"]

RtcNext == \E ok \in BOOLEAN : RtcToken(ok)

RtcSpec == RtcInit /\ [][RtcNext]_vars

\* ------------------------------------------------------- the whole server
\* app.get('/rtcToken') for a request q arriving while no other is waiting
RtcRequest(q, signOk) ==
    /\ query = NoQuery
    /\ response' = RtcReply(q.channelName, q.uid, q.now, signOk).response
    /\ signed' = RtcReply(q.channelName, q.uid, q.now, signOk).signed
    /\ last' = [op |-> "rtcToken", channelName |-> q.channelName, uid |-> q.uid,
                signOk |-> signOk]
    /\ emitted' = <<>>
    /\ submitted' = <<>>
    /\ UNCHANGED <<conn, sockUser, clients, pending, query, wire>>

\* /rtcToken requests next to the relay: a valid one, a non-numeric uid, no uid
ServerQueries ==
    [path : {"/rtcToken"}, channelName : {"room1"},
     uid : {[given |-> TRUE, chars |-> <<"5">>],
            [given |-> TRUE, chars |-> <<"a">>],
            [given |-> FALSE, chars |-> <<>>]},
     now : Clock]

\* the userIds that register next to the whole server, and the ones called and
\* notified
Registrants == {"doctor", Proto}
Targets == {"doctor", Builtin}
TargetPayloads == {p \in Payloads : p.to \in Targets}

\* every handler of the server: socket events and both HTTP routes
ServerNext ==
    \/ \E s \in Sockets : Connect(s)
    \/ \E s \in Sockets, uid \in Registrants : Register(s, uid)
    \/ \E uid \in Registrants, tok \in TokenArgs : RegisterPush(uid, tok)
    \/ \E s \in Sockets : Disconnect(s)
    \/ \E s \in Sockets, ev \in PayloadEvents : NoPayload(s, ev)
    \/ \E s \in Sockets, p \in TargetPayloads : Call(s, p)
    \/ \E s \in Sockets, op \in ForwardOps, p \in TargetPayloads : Forward(s, op, p)
    \/ \E to \in Targets, from \in Callers, ch \in Channels : SendPush(to, from, ch)
    \/ \E o \in ImportOutcomes : ImportResult(o)
    \/ \E o \in FetchOutcomes : FetchResult(o)
    \/ \E o \in TextOutcomes : TextResult(o)
    \/ \E q \in ServerQueries, ok \in BOOLEAN : RtcRequest(q, ok)

ServerSpec == Init /\ [][ServerNext]_vars

\* ---------------------------------------------------- order of delivery
\* the entries socket `room` gains from the messages of one handler run: each
\* message emitted to it, in emission order, tagged with the origin and with the
\* number of the origin's event
Tagged(msgs, room, sid, n) ==
    LET mine == SelectSeq(msgs, LAMBDA m : m.dest = room)
    IN  [i \in 1..Len(mine) |-> [origin |-> sid, n |-> n]]

\* delivery that puts the newest message ahead of the ones already delivered
DeliverNewestFirst(w, sid, msgs) ==
    [handled |-> [w.handled EXCEPT ![sid] = @ + 1],
     outbox |-> [r \in Sockets |->
                    Tagged(msgs, r, sid, w.handled[sid] + 1) \o w.outbox[r]]]

\* io.to(...).emit inside a handler: the handler runs to completion, so what it
\* emits reaches each connection after everything emitted by earlier handler runs
Deliver(w, sid, msgs) ==
    [handled |-> [w.handled EXCEPT ![sid] = @ + 1],
     outbox |-> [r \in Sockets |->
                    w.outbox[r] \o Tagged(msgs, r, sid, w.handled[sid] + 1)]]

RECURSIVE SumHandled(_, _)
SumHandled(w, ss) ==
    IF ss = {} THEN 0
    ELSE LET s == CHOOSE x \in ss : TRUE IN w.handled[s] + SumHandled(w, ss \ {s})

\* call-lifecycle events handled so far
Handled == SumHandled(wire, Sockets)

\* socket.on('call'), with its delivery recorded
CallInOrder(s, payload) ==
    /\ conn[s] = "open"
    /\ Handled < MaxEvents
    /\ emitted' = CallOut(clients, conn, s, payload)
    /\ wire' = Deliver(wire, s, emitted')
    /\ last' = [op |-> "call", sock |-> s, payload |-> payload]
    /\ submitted' = <<>>
    /\ signed' = <<>>
    /\ response' = NoResponse
    /\ UNCHANGED <<conn, sockUser, clients, pending, query>>

\* socket.on('accept_call' | 'reject_call' | 'end_call'), with its delivery recorded
ForwardInOrder(s, op, payload) ==
    /\ conn[s] = "open"
    /\ Handled < MaxEvents
    /\ emitted' = ForwardOut(clients, conn, s, op, payload)
    /\ wire' = Deliver(wire, s, emitted')
    /\ last' = [op |-> op, sock |-> s, payload |-> payload]
    /\ submitted' = <<>>
    /\ signed' = <<>>
    /\ response' = NoResponse
    /\ UNCHANGED <<conn, sockUser, clients, pending, query>>

\* the userIds registering while deliveries are recorded, and the payloads
\* addressed to them
FifoIds == {"doctor", Proto, Builtin}
RecordPayloads == {p \in Payloads : p.to \in FifoIds}

\* the relay with its deliveries recorded: connections come, register and go
\* while call-lifecycle events are handled
FifoNext ==
    \/ \E s \in Sockets : Connect(s)
    \/ \E s \in Sockets, uid \in FifoIds : Register(s, uid)
    \/ \E s \in Sockets : Disconnect(s)
    \/ \E s \in Sockets, p \in RecordPayloads : CallInOrder(s, p)
    \/ \E s \in Sockets, op \in ForwardOps, p \in RecordPayloads : ForwardInOrder(s, op, p)

FifoSpec == Init /\ [][FifoNext]_vars

\* ================================================================ claims
\* The handler a step ran is read from last' (each action sets last.op to its
\* own name); unprimed variables are the state the handler started from.

\* C1 (as claimed): when connection s1 registered user u and a different
\* connection s2 registered u after it, the disconnect of s1 leaves u resolving
\* to s2.
C1_StaleDisconnectKeepsNewer ==
    [][\A s1 \in Sockets, s2 \in Sockets, u \in Users :
          (/\ s1 # s2
           /\ last'.op = "disconnect"
           /\ last'.sock = s1
           /\ sockUser[s1] = u
           /\ sockUser[s2] = u
           /\ conn[s2] = "open"
           /\ SocketOf(clients, u) = s2)
          => SocketOf(clients', u) = s2]_vars

\* C2 (as claimed): a register event of connection s for userId u makes u resolve to s, whatever
\* u resolved to before, and once a register event has set u's entry nothing but
\* a later register for u changes what u resolves to, until a disconnect; u
\* resolves to that one connection only.
C2_LastRegisterWins ==
    [][/\ \A s \in Sockets, u \in UserIds :
            (last'.op = "register" /\ last'.sock = s /\ last'.userId = u)
            => /\ SocketOf(clients', u) = s
               /\ {x \in Sockets : SocketOf(clients', u) = x} = {s}
       /\ \A u \in UserIds :
            (/\ clients[u].socketId \in Sockets
             /\ last'.op # "disconnect"
             /\ ~(last'.op = "register" /\ last'.userId = u))
            => SocketOf(clients', u) = SocketOf(clients, u)]_vars

\* C3 (as claimed): a call whose target has no live connection in the registry
\* (no record, or a record without a socketId of its own, such as one holding
\* only a pushToken) is answered with exactly one callee_unavailable{to}, sent
\* to the caller's connection, and nothing is forwarded.
C3_CallUnregistered ==
    [][\A s \in Sockets, p \in Payloads :
          (/\ last'.op = "call"
           /\ last'.sock = s
           /\ last'.payload = p
           /\ clients[p.to].socketId = Undef)
          => emitted' = <<[dest |-> s, ev |-> "callee_unavailable",
                           payload |-> [to |-> p.to]]>>]_vars

\* C4 (as claimed): a call whose target resolves to a live connection h yields
\* exactly one incoming_call, delivered to h, and no message at all reaches the
\* originating connection.
C4_CallRegisteredNothingToCaller ==
    [][\A s \in Sockets, p \in Payloads :
          (/\ last'.op = "call"
           /\ last'.sock = s
           /\ last'.payload = p
           /\ ~Falsy(SocketOf(clients, p.to))
           /\ conn[SocketOf(clients, p.to)] = "open")
          => /\ emitted' = <<[dest |-> SocketOf(clients, p.to), ev |-> "incoming_call",
                              payload |-> p]>>
             /\ \A i \in 1..Len(emitted') : emitted'[i].dest # s]_vars

\* C4 (amended): a call whose target resolves to a live connection h yields
\* exactly one message, the incoming_call delivered to h; no callee_unavailable
\* is sent, and the originating connection receives nothing unless it is h itself.
C4_CallRegistered ==
    [][\A s \in Sockets, p \in Payloads :
          (/\ last'.op = "call"
           /\ last'.sock = s
           /\ last'.payload = p
           /\ ~Falsy(SocketOf(clients, p.to))
           /\ conn[SocketOf(clients, p.to)] = "open")
          => /\ emitted' = <<[dest |-> SocketOf(clients, p.to), ev |-> "incoming_call",
                              payload |-> p]>>
             /\ \A i \in 1..Len(emitted') : emitted'[i].ev # "callee_unavailable"
             /\ SocketOf(clients, p.to) # s
                => \A i \in 1..Len(emitted') : emitted'[i].dest # s]_vars

\* a call was forwarded to another connection than the caller's
C4_Witness ==
    /\ last.op = "call"
    /\ Len(emitted) = 1
    /\ emitted[1].ev = "incoming_call"
    /\ emitted[1].dest = SocketOf(clients, last.payload.to)
    /\ emitted[1].dest # last.sock

\* C5: accept_call, reject_call and end_call send exactly one message
\* (call_accepted, call_rejected, end_call) to the live connection `to` resolves
\* to, and nothing at all when `to` does not resolve; no step delivers more than
\* one message, and only the four call-lifecycle handlers deliver any.
C5_ForwardOrDrop ==
    [][/\ \A s \in Sockets, p \in Payloads :
            (last'.op \in ForwardOps /\ last'.sock = s /\ last'.payload = p)
            => IF ~Falsy(SocketOf(clients, p.to)) /\ conn[SocketOf(clients, p.to)] = "open"
               THEN emitted' = <<[dest |-> SocketOf(clients, p.to),
                                  ev |-> ForwardName(last'.op), payload |-> p]>>
               ELSE emitted' = <<>>
       /\ Len(emitted') <= 1
       /\ last'.op \notin (ForwardOps \cup {"call"}) => emitted' = <<>>]_vars

\* an end_call for a user who registered and whose connection has gone was dropped
C5_Witness ==
    /\ last.op = "end_call"
    /\ clients[last.payload.to].present
    /\ Falsy(SocketOf(clients, last.payload.to))
    /\ emitted = <<>>

\* C6 (as claimed): after the disconnect of a connection whose userId is u, u no
\* longer resolves to a live connection and u's pushToken is what it was; and a
\* /sendPush to a user with a pushToken and no socketId is not answered 400: its
\* request, addressed to that pushToken, is handed to the delivery client.
C6_DisconnectKeepsAddress ==
    [][/\ \A s \in Sockets, u \in Users :
            (last'.op = "disconnect" /\ last'.sock = s /\ sockUser[s] = u)
            => /\ ~(/\ SocketOf(clients', u) \in Sockets
                    /\ conn'[SocketOf(clients', u)] = "open")
               /\ PushTokenOf(clients', u) = PushTokenOf(clients, u)
       /\ \A u \in Users :
            (/\ last'.op = "sendPush"
             /\ last'.to = u
             /\ Falsy(SocketOf(clients, u))
             /\ ~Falsy(PushTokenOf(clients, u)))
            => /\ response'.status # 400
               /\ Len(pending'.import) = Len(pending.import) + 1
               /\ pending'.import[Len(pending'.import)].request.to
                      = PushTokenOf(clients, u)]_vars

\* C7 (as claimed): a transport error and a non-success response both end in
\* 500 {error: "push_failed"}, and 200 {ok: true} is sent only when the
\* collaborator reported success.
C7_DeliveryFailureIs500 ==
    /\ (last.op = "fetch_result" /\ last.outcome = "error") => response = PushFailed
    /\ last.op = "text_result" => response = PushFailed
    /\ response = PushOk => (last.op = "fetch_result" /\ last.outcome = "ok")

\* C8 (as claimed): /sendPush for a user with no pushToken on file (no record, or
\* a record that no register_push for that user has written to) answers 400
\* {error: "No push token for recipient"}, submits nothing and changes neither
\* the registry nor the requests in flight.
C8_NoAddressIs400 ==
    [][\A u \in Users :
          (last'.op = "sendPush" /\ last'.to = u /\ clients[u].pushToken = Undef)
          => /\ response' = NoPushToken
             /\ submitted' = <<>>
             /\ clients' = clients
             /\ pending' = pending]_vars

\* C9 (as claimed): every /sendPush accepted for a user with a pushToken on file
\* ends in exactly one submission, addressed to the pushToken the user has on
\* file at that moment, with data type=incoming_call and the request's from and
\* channel; nothing else is ever submitted, so a failed delivery is not
\* submitted again.
C9_SubmittedOnce ==
    [][/\ \A u \in Users :
            (last'.op = "import_result" /\ last'.to = u /\ clients[u].pushToken \in Tokens)
            => /\ Len(submitted') = 1
               /\ submitted'[1].to = clients[u].pushToken
               /\ submitted'[1].data.type = "incoming_call"
       /\ last'.op # "import_result" => submitted' = <<>>]_vars

\* C9 (amended): a /sendPush for a user with a pushToken on file hands one
\* request to the delivery client, addressed to the pushToken on file when the
\* request is handled, with data type=incoming_call and the request's from and
\* channel. That request is submitted as it was built once the delivery client
\* has loaded, whatever the registry holds by then, and is not submitted at all,
\* the answer being 500, when the client fails to load; each request leaves the
\* queue on that step, and no other step submits anything, so nothing is
\* submitted twice or again after a failure.
C9_SubmittedAtMostOnce ==
    [][/\ \A u \in UserIds :
            (last'.op = "sendPush" /\ last'.to = u /\ clients[u].pushToken \in Tokens)
            => /\ pending'.import
                    = Append(pending.import,
                             [to |-> u,
                              request |-> [to |-> clients[u].pushToken,
                                           title |-> "Incoming Call",
                                           body |-> <<last'.from, " is calling you">>,
                                           data |-> [type |-> "incoming_call",
                                                     from |-> last'.from,
                                                     channel |-> last'.channel]]])
               /\ submitted' = <<>>
       /\ last'.op = "import_result"
          => /\ pending.import # <<>>
             /\ pending'.import = Tail(pending.import)
             /\ last'.outcome = "resolved"
                => submitted' = <<Head(pending.import).request>>
             /\ last'.outcome = "rejected"
                => submitted' = <<>> /\ response' = PushFailed
       /\ last'.op # "import_result" => submitted' = <<>>
       /\ last'.op # "sendPush" => Len(pending'.import) <= Len(pending.import)]_vars

\* a request was submitted to the pushToken it was built with after the user had
\* registered another one
C9_Witness ==
    /\ last.op = "import_result"
    /\ last.outcome = "resolved"
    /\ Len(submitted) = 1
    /\ clients[last.to].pushToken \in Tokens \ {submitted[1].to}

\* C10 (as claimed): /rtcToken answers 400 without calling the signing primitive
\* when channelName or uid is missing or uid is not a finite number or has a
\* fractional part; otherwise it answers 200 with the numeric uid and the same
\* channelName, or 500 {error: "token_generation_failed"}.
C10_OnlyIntegerUidIssued ==
    last.op = "rtcToken" =>
        LET invalid == \/ Falsy(last.channelName)
                       \/ UidMissing(last.uid)
                       \/ ~IsFinite(ToNumber(last.uid.chars))
                       \/ ~IsInteger(ToNumber(last.uid.chars))
        IN  IF invalid
            THEN response.status = 400 /\ signed = <<>>
            ELSE \/ /\ response.status = 200
                    /\ response.body.uid = JsonNumber(ToNumber(last.uid.chars))
                    /\ response.body.channelName = last.channelName
                 \/ response = RtcSignFailed

\* C11: every incoming_call, call_accepted, call_rejected and end_call delivered
\* carries the payload of the event being handled, field for field, auxiliary
\* fields included; a callee_unavailable carries {to} with the call's target.
C11_PayloadVerbatim ==
    [][\A i \in 1..Len(emitted') :
          IF emitted'[i].ev = "callee_unavailable"
          THEN /\ last'.op = "call"
               /\ emitted'[i].payload = [to |-> last'.payload.to]
          ELSE /\ last'.op \in (ForwardOps \cup {"call"})
               /\ emitted'[i].ev \in {"incoming_call", "call_accepted",
                                      "call_rejected", "end_call"}
               /\ emitted'[i].payload = last'.payload
               /\ DOMAIN emitted'[i].payload = {"to", "from", "channel", "callerUid"}]_vars

\* an accept_call was forwarded with its auxiliary field in place
C11_Witness ==
    /\ last.op = "accept_call"
    /\ Len(emitted) = 1
    /\ emitted[1].ev = "call_accepted"
    /\ emitted[1].payload = last.payload
    /\ emitted[1].payload.callerUid \in CallerUids

\* C13 (as claimed): a register whose userId is empty or absent, and a
\* register_push whose userId or pushToken is empty or absent, change no record
\* of the registry and no connection's userId, and deliver no message.
C13_EmptyArgumentsIgnored ==
    [][(\/ last'.op = "register" /\ last'.userId \in {"", Undef}
        \/ last'.op = "register_push" /\ last'.userId \in {"", Undef}
        \/ last'.op = "register_push" /\ last'.pushToken \in {"", Undef})
       => /\ clients' = clients
          /\ sockUser' = sockUser
          /\ emitted' = <<>>]_vars

\* C14 (as claimed): a register of connection s for userId u leaves u's record present with
\* socketId s and its pushToken as it was, and a register_push(u, t) leaves it
\* present with pushToken t and its socketId as it was; neither touches another
\* record, and applying the same event once more changes nothing.
C14_IdempotentUpserts ==
    [][/\ \A s \in Sockets, u \in UserIds :
            (last'.op = "register" /\ last'.sock = s /\ last'.userId = u)
            => /\ clients'[u].present
               /\ clients'[u].socketId = s
               /\ clients'[u].pushToken = clients[u].pushToken
               /\ \A v \in UserIds \ {u} : clients'[v] = clients[v]
               /\ sockUser'[s] = u
               /\ UpsertSocket(clients', u, s) = clients'
       /\ \A u \in UserIds, t \in Tokens :
            (last'.op = "register_push" /\ last'.userId = u /\ last'.pushToken = t)
            => /\ clients'[u].present
               /\ clients'[u].pushToken = t
               /\ clients'[u].socketId = clients[u].socketId
               /\ \A v \in UserIds \ {u} : clients'[v] = clients[v]
               /\ sockUser' = sockUser
               /\ UpsertPush(clients', u, t) = clients']_vars

\* C15 (as claimed): whenever the registry resolves user u to connection c, c is
\* connected and c's userId is u.
C15_ResolvedIsLiveAndOwned ==
    \A u \in Users :
        ~Falsy(SocketOf(clients, u))
        => /\ conn[SocketOf(clients, u)] = "open"
           /\ sockUser[SocketOf(clients, u)] = u

\* C16 (as claimed): every call event delivers exactly one message: an
\* incoming_call to a connection that is connected, or a callee_unavailable to
\* the caller's own connection.
C16_CallHasOutcome ==
    last.op = "call"
    => /\ Len(emitted) = 1
       /\ \/ emitted[1].ev = "incoming_call" /\ conn[emitted[1].dest] = "open"
          \/ emitted[1].ev = "callee_unavailable" /\ emitted[1].dest = last.sock

\* C18: a disconnect of connection c changes at most the socketId field of the
\* record of c's userId and leaves every other record as it was; when
\* c never registered the registry is untouched; and the cleanup runs once per
\* connection: c was connected before the step and is closed after it, for good.
C18_DisconnectTouchesOneUser ==
    [][/\ last'.op = "disconnect"
          => /\ conn[last'.sock] = "open"
             /\ conn'[last'.sock] = "closed"
             /\ last'.userId = sockUser[last'.sock]
             /\ \A u \in UserIds :
                    /\ u # last'.userId => clients'[u] = clients[u]
                    /\ clients'[u].present = clients[u].present
                    /\ clients'[u].pushToken = clients[u].pushToken
                    /\ clients'[u].socketId \in {clients[u].socketId, Undef}
             /\ last'.userId = Undef => clients' = clients
       /\ \A s \in Sockets : conn[s] = "closed" => conn'[s] = "closed"]_vars

C18_Witness ==
    /\ last.op = "disconnect"
    /\ last.userId \in Users
    /\ SocketOf(clients, last.userId) = Undef
    /\ \E v \in Users \ {last.userId} :
           /\ SocketOf(clients, v) \in Sockets
           /\ conn[SocketOf(clients, v)] = "open"

\* C19 (as claimed): an alert for `to` is submitted only in states where `to` has
\* no live connection and has a registered notification address, and a /sendPush
\* made while `to` has a live connection (and an address of its own on file)
\* hands nothing to the delivery client.
C19_SubmitsOnlyWhenOffline ==
    [][/\ (last'.op = "import_result" /\ submitted' # <<>>)
          => /\ PushTokenOf(clients, last'.to) \in Tokens
             /\ ~(/\ SocketOf(clients, last'.to) \in Sockets
                  /\ conn[SocketOf(clients, last'.to)] = "open")
       /\ (/\ last'.op = "sendPush"
           /\ clients[last'.to].pushToken \in Tokens
           /\ SocketOf(clients, last'.to) \in Sockets
           /\ conn[SocketOf(clients, last'.to)] = "open")
          => pending'.import = pending.import]_vars

\* C19 (amended): an alert for `to` is submitted only for a /sendPush handled in
\* a state where `to` resolved to a registered pushToken: otherwise the request
\* is answered 400 and nothing is handed to the delivery client, and every
\* submission is that of a request handed over by a /sendPush. Whether `to` has
\* a live connection plays no part: a /sendPush made while `to` resolves to a
\* pushToken hands over one request addressed to it, with `to` connected or not.
C19_SubmitsOnlyWhenAddressed ==
    [][/\ last'.op = "sendPush"
          => IF PushTokenOf(clients, last'.to) \in Tokens
             THEN /\ Len(pending'.import) = Len(pending.import) + 1
                  /\ pending'.import[Len(pending'.import)].to = last'.to
                  /\ pending'.import[Len(pending'.import)].request.to
                         = PushTokenOf(clients, last'.to)
                  /\ response' = NoResponse
             ELSE /\ pending' = pending
                  /\ response' = NoPushToken
       /\ submitted' # <<>>
          => /\ last'.op = "import_result"
             /\ pending.import # <<>>
             /\ last'.to = Head(pending.import).to
             /\ submitted' = <<Head(pending.import).request>>
             /\ submitted'[1].to \in Tokens
       /\ last'.op # "sendPush" => Len(pending'.import) <= Len(pending.import)]_vars

\* an alert was submitted, to the user's own pushToken, for a user whose own
\* connection is open
C19_Witness ==
    /\ last.op = "import_result"
    /\ Len(submitted) = 1
    /\ clients[last.to].socketId \in Sockets
    /\ conn[clients[last.to].socketId] = "open"
    /\ sockUser[clients[last.to].socketId] = last.to
    /\ submitted[1].to = clients[last.to].pushToken

\* C17: only register, register_push and disconnect change the registry: call,
\* accept_call, reject_call, end_call, /sendPush (its resumptions included) and
\* /rtcToken leave every record as it was. The pushToken of a record, once set,
\* stays set and the record stays present; it changes only by a register_push
\* for that same userId, to the pushToken the handler reads from that event.
C17_RegistryWriters ==
    [][/\ clients' # clients => last'.op \in {"register", "register_push", "disconnect"}
       /\ last'.op \in (ForwardOps \cup {"call", "sendPush", "import_result", "fetch_result",
                                     "text_result", "rtcToken"})
          => clients' = clients
       /\ \A u \in UserIds :
            clients[u].pushToken \in Tokens
            => /\ clients'[u].present
               /\ clients'[u].pushToken \in Tokens
               /\ clients'[u].pushToken # clients[u].pushToken
                  => /\ last'.op = "register_push"
                     /\ last'.userId = u
                     /\ PayloadPushToken(clients, last'.pushToken) = clients'[u].pushToken]_vars

\* a user holding a pushToken registered a connection afterwards and kept the token
C17_Witness ==
    /\ last.op = "register"
    /\ last.userId \in Users
    /\ clients[last.userId].pushToken \in Tokens
    /\ SocketOf(clients, last.userId) = last.sock

\* C12: when one originating connection emits event e1 before event e2 and both
\* produce a message for the same recipient connection, the recipient gets the
\* message for e1 before the message for e2, however the events of other
\* connections, registrations and disconnects interleave.
C12_FifoPerOrigin ==
    \A r \in Sockets :
        \A i, j \in 1..Len(wire.outbox[r]) :
            (i < j /\ wire.outbox[r][i].origin = wire.outbox[r][j].origin)
            => wire.outbox[r][i].n < wire.outbox[r][j].n

\* a connection received two messages of one origin with another origin's between
C12_Witness ==
    \E r \in Sockets :
        /\ Len(wire.outbox[r]) = 3
        /\ wire.outbox[r][1].origin = wire.outbox[r][3].origin
        /\ wire.outbox[r][2].origin # wire.outbox[r][1].origin
        /\ wire.outbox[r][1].n < wire.outbox[r][3].n

====
